---- MODULE Spec2Model ----
(***************************************************************************)
(* A model of irrealis_bayes: PMF (a dict used as a probability mass       *)
(* function, with the Bayesian update protocol) and CDF (a cumulative      *)
(* distribution built from a snapshot of a PMF).                           *)
(*                                                                         *)
(* Numbers.  Python floats are modelled as exact extended rationals: a     *)
(* value is a pair <<n, d>>; d > 0 is the reduced fraction n/d, <<1,0>>    *)
(* and <<-1,0>> are +inf and -inf, <<0,0>> is NaN.  Rounding is therefore  *)
(* abstracted away; inf/NaN propagation follows IEEE-754.                  *)
(*                                                                         *)
(* Dicts.  A dict is a sequence of [e |-> key, w |-> value] entries with   *)
(* distinct keys, in the dict's iteration order.  CPython 2.7 iterates a   *)
(* dict by hash slot: a key's slot is hash(key) modulo the table's size,   *)
(* the hash of a small non-negative int is the int itself, and the table   *)
(* has TableSize slots while the dict has held fewer than six keys.  The   *)
(* hypotheses are ints with distinct slots, the largest of them in slot 0: *)
(* iteration order is not numerical order.                                 *)
(***************************************************************************)
EXTENDS Integers, Sequences, FiniteSets, TLC

\* ------------------------------------------------------------------ bounds
MaxEvent == 2      \* a PMF has up to MaxEvent hypotheses
MaxWeight == 2     \* constructor weights are 0..MaxWeight
MaxOps == 2        \* top-level operations per run
RandDen == 2       \* random.random() is drawn from {k/RandDen : 0 <= k < RandDen}
MaxCdfEvent == 3   \* a CDF's source has up to MaxCdfEvent events
ProbDen == 2       \* percentile probabilities lie 1/ProbDen off the cumulative sums

\* ------------------------------------------------- program constants (tests)
Bowl1Vanilla == 30
Bowl1Chocolate == 10
Bowl2Vanilla == 20
Bowl2Chocolate == 20

\* The slots of a dict's table while it is small (PyDict_MINSIZE)
TableSize == 8

\* The hypotheses: the int TableSize, whose slot is 0, and the ints from 1 on,
\* whose slots are 1, 2, ...
Events == {TableSize} \cup 1..(MaxEvent - 1)
\* The events of the dicts a CDF is built from
CdfEvents == {TableSize} \cup 1..(MaxCdfEvent - 1)

\* ------------------------------------------------------- float arithmetic
Abs(x) == IF x < 0 THEN -x ELSE x
Sign(x) == IF x < 0 THEN -1 ELSE IF x > 0 THEN 1 ELSE 0

RECURSIVE GCD(_, _)
GCD(a, b) == IF b = 0 THEN a ELSE GCD(b, a % b)

\* The reduced fraction n/d (d # 0).
Frac(n, d) ==
  LET s == IF d < 0 THEN -1 ELSE 1
      g == GCD(Abs(n), Abs(d))
  IN  <<(s * n) \div g, (s * d) \div g>>

Num(n) == <<n, 1>>
Zero == <<0, 1>>
One == <<1, 1>>
NaN == <<0, 0>>
Inf == <<1, 0>>

IsNaN(a) == a = NaN
IsInf(a) == a[2] = 0 /\ a[1] # 0
IsFinite(a) == a[2] > 0

\* float.__mul__
Mul(a, b) ==
  IF IsNaN(a) \/ IsNaN(b) THEN NaN
  ELSE IF IsInf(a) \/ IsInf(b)
       THEN IF a[1] = 0 \/ b[1] = 0 THEN NaN
            ELSE <<Sign(a[1]) * Sign(b[1]), 0>>
  ELSE Frac(a[1] * b[1], a[2] * b[2])

\* float.__add__
Add(a, b) ==
  IF IsNaN(a) \/ IsNaN(b) THEN NaN
  ELSE IF IsInf(a) /\ IsInf(b) THEN (IF a = b THEN a ELSE NaN)
  ELSE IF IsInf(a) THEN a
  ELSE IF IsInf(b) THEN b
  ELSE Frac(a[1] * b[2] + b[1] * a[2], a[2] * b[2])

\* 1./a for a # 0
Recip(a) ==
  IF IsNaN(a) THEN NaN
  ELSE IF IsInf(a) THEN Zero
  ELSE Frac(a[2], a[1])

\* Python comparisons: any comparison with NaN is False.
Lt(a, b) ==
  /\ ~IsNaN(a) /\ ~IsNaN(b)
  /\ IF IsInf(a) /\ IsInf(b) THEN a[1] < b[1]
     ELSE a[1] * b[2] < b[1] * a[2]
Eq(a, b) == ~IsNaN(a) /\ ~IsNaN(b) /\ a = b
Ge(a, b) == Lt(b, a) \/ Eq(a, b)
Le(a, b) == Lt(a, b) \/ Eq(a, b)
\* bool(a): only zero is falsy
Truthy(a) == a # Zero

RECURSIVE Pow(_, _)
Pow(a, k) == IF k = 0 THEN One ELSE Mul(a, Pow(a, k - 1))

\* ------------------------------------------------------------------ dicts
Keys(m) == {m[i].e : i \in DOMAIN m}
IndexOf(m, k) == CHOOSE i \in DOMAIN m : m[i].e = k
Get(m, k) == m[IndexOf(m, k)].w
\* The slot of key k in the dict's table: hash(k) modulo the table's size
Slot(k) == k % TableSize
\* dict.__setitem__: the value of a key the dict holds is replaced where it is;
\* a new key's entry takes the key's slot, after the entries of lower slots
SetItemOf(m, k, w) ==
  IF k \in Keys(m) THEN [m EXCEPT ![IndexOf(m, k)].w = w]
  ELSE LET n == Cardinality({i \in DOMAIN m : Slot(m[i].e) < Slot(k)})
       IN  SubSeq(m, 1, n) \o <<[e |-> k, w |-> w]>> \o SubSeq(m, n + 1, Len(m))
\* dict.__delitem__ for a key the dict holds: the other entries stay in order
DelItemOf(m, k) == SelectSeq(m, LAMBDA x : x.e # k)

\* The keys S in the order a dict holding them iterates: by slot.
RECURSIVE SlotOrder(_)
SlotOrder(S) ==
  IF S = {} THEN <<>>
  ELSE LET x == CHOOSE y \in S : \A z \in S : Slot(y) <= Slot(z)
       IN  <<x>> \o SlotOrder(S \ {x})

\* The elements of S in ascending order.
RECURSIVE Ascending(_)
Ascending(S) ==
  IF S = {} THEN <<>>
  ELSE LET x == CHOOSE y \in S : \A z \in S : y <= z
       IN  <<x>> \o Ascending(S \ {x})

\* ---------------------------------------------------------------- class PMF
\* Mutant of copy: returns the receiver itself instead of a new object.
copy_alias(h, src, fresh) == [heap |-> h, ref |-> src]

\* PMF.copy: self.__class__(self), a new dict object holding the same entries.
\* h is the heap, src the object copied, fresh the id of the new object; the
\* result is the heap after the call and the reference returned.
copy(h, src, fresh) == [heap |-> [h EXCEPT ![fresh] = h[src]], ref |-> fresh]

\* sum(...) of a sequence of numbers, left to right from 0
RECURSIVE SumFrom(_, _, _)
SumFrom(acc, ws, i) ==
  IF i > Len(ws) THEN acc ELSE SumFrom(Add(acc, ws[i]), ws, i + 1)

\* PMF.total
total(m) == SumFrom(Zero, [i \in DOMAIN m |-> m[i].w], 1)

\* Mutants of normalizer: the total instead of its reciprocal; 1 instead of
\* +inf for a zero total.
normalizer_total(m) == total(m)
normalizer_guarded(m) == IF Truthy(total(m)) THEN Recip(total(m)) ELSE One

\* PMF.normalizer
normalizer(m) == IF Truthy(total(m)) THEN Recip(total(m)) ELSE Inf

\* PMF.scale
scale(m, factor) == [i \in DOMAIN m |-> [m[i] EXCEPT !.w = Mul(@, factor)]]

\* PMF.normalize
normalize(m) == scale(m, normalizer(m))

\* The loop of PMF.random over entries i.. with running total acc: the first
\* event whose running total is >= target, None when the loop falls through.
RECURSIVE RandomScan(_, _, _, _)
RandomScan(m, target, acc, i) ==
  IF i > Len(m) THEN [some |-> FALSE, val |-> 0]
  ELSE LET t == Add(acc, m[i].w)
       IN  IF Ge(t, target) THEN [some |-> TRUE, val |-> m[i].e]
           ELSE RandomScan(m, target, t, i + 1)

\* PMF.random, r the value random.random() returned
random(m, r) == RandomScan(m, Mul(r, total(m)), Zero, 1)

\* self.clear() followed by one self[event] = f(event) per listed event
RECURSIVE Assign(_, _, _, _)
Assign(m, events, alpha, i) ==
  IF i > Len(events) THEN m
  ELSE Assign(SetItemOf(m, events[i], Pow(Recip(Num(events[i])), alpha)),
              events, alpha, i + 1)

\* PMF.power_law_dist
power_law_dist(events, alpha) == normalize(Assign(<<>>, events, alpha, 1))

\* PMF.uniform_dist: every event gets the measure 1
uniform_dist(events) == normalize(Assign(<<>>, events, 0, 1))

\* ------------------------------------------------ classes supplying likelihood
\* PMF.update calls self.likelihood(data, given = event), and PMF.likelihood
\* raises NotImplementedError: an update() of a PMF that holds a hypothesis
\* never returns.  A likelihood that returns is supplied by the caller, in a
\* subclass of PMF that overrides likelihood(self, data, given); like data it
\* is an input of update().  Two such subclasses are modelled:
\*
\*   class Pure(PMF):
\*     def likelihood(self, data, given): return self.table[data][given]
\*
\* a side-effect-free likelihood, fixed by a table of non-negative reals
\* (every table over LikValues, the table of the dice likelihood, and that
\* table without one hypothesis, for which the lookup raises KeyError), and
\*
\*   class Inventory(PMF):
\*     def __init__(self):
\*       PMF.__init__(self)
\*       bowl_1 = PMF(vanilla=30, chocolate=10)
\*       bowl_2 = PMF(vanilla=20, chocolate=20)
\*       self.hypotheses = dict(
\*         A = dict(bowl_a = bowl_1.copy(), bowl_b = bowl_2.copy()),
\*         B = dict(bowl_a = bowl_2.copy(), bowl_b = bowl_1.copy()))
\*       self.uniform_dist(self.hypotheses)
\*     def likelihood(self, data, given):
\*       bowl, cookie = data
\*       distribution = self.hypotheses[given][bowl].copy()
\*       distribution.normalize()
\*       likelihood = distribution[cookie]
\*       self.hypotheses[given][bowl][cookie] -= 1
\*       return likelihood
\*
\* a likelihood with a side effect: it takes a cookie out of the hypothesis's
\* bowl.  The example classes of tests.py, from which these bodies are taken,
\* are not modelled as they stand: they subclass BayesPMF, which the package
\* does not define, and name the parameter given_hypothesis.
\* The hypotheses 'A' and 'B' of Inventory, in the order their dict iterates
HypA == 1
HypB == 2
Bowls == {"bowl_a", "bowl_b"}
Cookies == {"vanilla", "chocolate"}
Bowl1 == <<[e |-> "vanilla", w |-> Num(Bowl1Vanilla)],
           [e |-> "chocolate", w |-> Num(Bowl1Chocolate)]>>
Bowl2 == <<[e |-> "vanilla", w |-> Num(Bowl2Vanilla)],
           [e |-> "chocolate", w |-> Num(Bowl2Chocolate)]>>
\* Inventory.__init__: self.hypotheses
CookieHypotheses ==
  [h \in {HypA, HypB} |->
     IF h = HypA THEN [bowl_a |-> Bowl1, bowl_b |-> Bowl2]
     ELSE [bowl_a |-> Bowl2, bowl_b |-> Bowl1]]

Kinds == {"PMF", "Pure", "Inventory"}

\* The data handed to update() of a PMF or a Pure: two rolls of a die
Rolls == {[roll |-> r] : r \in {1, TableSize}}
\* The data handed to update() of an Inventory: a cookie drawn from a bowl
Draws == {[bowl |-> b, cookie |-> c] : b \in Bowls, c \in Cookies}

\* The dice likelihood: a roll above the die's number of sides is impossible,
\* any other has probability 1/sides.
DiceLikelihood(d, given) ==
  IF given < d.roll THEN Zero ELSE Recip(Num(given))

\* The values of the likelihood tables
LikValues == {Zero, Frac(1, 2), One}
\* The likelihood tables of Pure: every table over LikValues
Likelihoods == [Rolls -> [Events -> LikValues]]
\* The table of the dice likelihood
DiceTable == [d \in Rolls |-> [h \in Events |-> DiceLikelihood(d, h)]]
\* The table of the dice likelihood without the hypothesis 1: the likelihood
\* given 1 raises KeyError
PartialTable == [d \in Rolls |-> [h \in Events \ {1} |-> DiceLikelihood(d, h)]]
\* Pure.likelihood: self.table[data][given]
PureLikelihood(hy, d, given) ==
  IF given \in DOMAIN hy[d] THEN [err |-> "", val |-> hy[d][given], hyp |-> hy]
  ELSE [err |-> "KeyError", val |-> Zero, hyp |-> hy]

\* Inventory.likelihood: the likelihood read from a normalized copy of the
\* hypothesis's bowl, and self.hypotheses after the cookie is taken out.
CookieLikelihood(hy, d, given) ==
  IF given \notin DOMAIN hy
  THEN [err |-> "KeyError", val |-> Zero, hyp |-> hy]
  ELSE LET distribution == normalize(hy[given][d.bowl])
           left == SetItemOf(hy[given][d.bowl], d.cookie,
                             Add(Get(hy[given][d.bowl], d.cookie), Num(-1)))
       IN  [err |-> "", val |-> Get(distribution, d.cookie),
            hyp |-> [hy EXCEPT ![given][d.bowl] = left]]

\* Mutant of likelihood: the base class returns 1 instead of raising.
likelihood_default(k, hy, d, given) ==
  IF k = "PMF" THEN [err |-> "", val |-> One, hyp |-> hy]
  ELSE IF k = "Pure" THEN PureLikelihood(hy, d, given)
  ELSE CookieLikelihood(hy, d, given)

\* self.likelihood(data, given) of an object of class k whose likelihood state
\* is hy (Pure's table, Inventory's bowls): the error raised (if any), the value
\* returned, the likelihood state after.  PMF.likelihood raises; an override
\* is called in its place.
likelihood(k, hy, d, given) ==
  IF k = "PMF" THEN [err |-> "NotImplementedError", val |-> Zero, hyp |-> hy]
  ELSE IF k = "Pure" THEN PureLikelihood(hy, d, given)
  ELSE CookieLikelihood(hy, d, given)

\* Mutant of NextIndex: the loop skips every other entry.
NextIndexSkip(i) == i + 2

\* `for event in self`: the entry visited after entry i
NextIndex(i) == i + 1

\* Mutant of Revise: the likelihood is assigned instead of multiplied in.
ReviseAssign(w, val) == val

\* self[event] *= <the likelihood returned>: the weight stored
Revise(w, val) == Mul(w, val)

\* Mutant of update_finish: update() returns without normalizing.
update_finish_skip(m) == m

\* The end of update(): self.normalize()
update_finish(m) == normalize(m)

\* ------------------------------------------------------------------- state
VARIABLES
  heap,      \* object id -> dict: the PMF objects' contents
  cref,      \* the object the name c refers to ("none" before c = m.copy())
  kind,      \* the class of the PMF objects
  hyp,       \* the likelihood's state: Pure's table, Inventory's self.hypotheses
  pc,        \* "idle", or "loop" inside update()'s for loop
  self,      \* the name update() was called on
  data,      \* update()'s argument
  it,        \* the index of the entry the for loop visits next
  trace,     \* the likelihood calls of the current update(): [e, val] each
  hist,      \* the dict before a run of consecutive update() calls, and their data
  callsWith, \* per hypothesis, the update() calls made while it was in the dict
  invoked,   \* per hypothesis, the likelihood invocations of the current update()
  failed,    \* whether some update() call raised
  prior,     \* the receiver's dict when the current update() was entered
  last,      \* the last operation: name, receiver, error, result
  ops,       \* operations so far
  cdf,       \* the CDF object: events and cumulative_distribution
  query,     \* the last percentile query: probability, index, error, event
  interval   \* the last percentiles call: probabilities, percentile calls, result

vars == <<heap, cref, kind, hyp, pc, self, data, it, trace, hist, callsWith,
          invoked, failed, prior, last, ops, cdf, query, interval>>

None == [some |-> FALSE, val |-> 0]
Weights == {Num(w) : w \in 0..MaxWeight}
\* The dicts over the events E a PMF can be constructed from
Dicts(E) ==
  UNION {{[i \in DOMAIN SlotOrder(S) |->
             [e |-> SlotOrder(S)[i], w |-> f[SlotOrder(S)[i]]]] :
            f \in [S -> Weights]} : S \in SUBSET E}
\* The keys callsWith and invoked count for
Hypotheses == Events \cup {HypA, HypB}
\* The event lists handed to uniform_dist and power_law_dist, the weights
\* assigned by item assignment
EventLists == {SubSeq(Ascending(Events), 1, n) : n \in 0..MaxEvent}
SetWeights == {Zero, Num(MaxWeight)}
Factors == {Zero, Frac(1, 2), Num(2)}
Alphas == {1, 2}
DataOf(k) == IF k = "Inventory" THEN Draws ELSE Rolls
Randoms == {Frac(k, RandDen) : k \in 0..(RandDen - 1)}

Ref(who) == IF who = "m" THEN "o1" ELSE cref
Names == IF cref = "none" THEN {"m"} ELSE {"m", "c"}
Obj(who) == heap[Ref(who)]

\* The state after m = K(d), K a class among Ks and d among Ds; a Pure has its
\* table among Ls, and an Inventory is constructed without data: its
\* constructor sets self.hypotheses and calls uniform_dist over their names.
InitOf(Ks, Ds, Ls) ==
  /\ kind \in Ks
  /\ \E d \in (IF kind = "Inventory"
               THEN {uniform_dist(SlotOrder(DOMAIN CookieHypotheses))}
               ELSE Ds) :
       heap = [o \in {"o1", "o2"} |-> IF o = "o1" THEN d ELSE <<>>]
  /\ cref = "none"
  /\ hyp \in (IF kind = "Pure" THEN Ls
              ELSE IF kind = "Inventory" THEN {CookieHypotheses} ELSE {<<>>})
  /\ pc = "idle" /\ self = "m" /\ data = [none |-> TRUE] /\ it = 1
  /\ trace = <<>>
  /\ hist = [base |-> <<>>, ds |-> <<>>]
  /\ callsWith = [h \in Hypotheses |-> 0]
  /\ invoked = [h \in Hypotheses |-> 0]
  /\ failed = FALSE
  /\ prior = <<>>
  /\ last = [op |-> "init", who |-> "m", err |-> "", ret |-> None]
  /\ ops = 0
  /\ cdf = [built |-> FALSE, events |-> <<>>, cumulative_distribution |-> <<>>]
  /\ query = [asked |-> FALSE, p |-> Zero, index |-> 0, err |-> "", event |-> None]
  /\ interval = [asked |-> FALSE, probabilities |-> <<>>, calls |-> <<>>,
                 err |-> "", ret |-> <<>>]

\* The priors the likelihood tables are tried on: every hypothesis held, with
\* a positive weight
PriorDicts ==
  {d \in Dicts(Events) :
     Len(d) = MaxEvent /\ \A i \in DOMAIN d : d[i].w \in {One, Num(MaxWeight)}}

\* m = Pure(d) with the dice likelihood
Init == InitOf({"Pure"}, Dicts(Events), {DiceTable})
\* m = PMF(d)
InitPMF == InitOf({"PMF"}, Dicts(Events), {})
\* m = Pure(d) with the dice likelihood or without one of its entries,
\* m = Pure(d) with any likelihood table, m = PMF(d), or m = Inventory()
InitUpdate ==
  \/ InitOf({"Pure"}, Dicts(Events), {DiceTable, PartialTable})
  \/ InitOf({"Pure"}, PriorDicts, Likelihoods)
  \/ InitOf({"PMF", "Inventory"}, Dicts(Events), {})
\* m = PMF(d), d over the events of a CDF's source
InitCDF == InitOf({"PMF"}, Dicts(CdfEvents), {})
\* m = PMF(d), for random()
InitSample == InitCDF
\* m = Pure(d) with the dice likelihood, d's weights among those of item
\* assignment
InitSnapshot ==
  InitOf({"Pure"},
         {d \in Dicts(Events) : \A i \in DOMAIN d : d[i].w \in SetWeights},
         {DiceTable})

\* A whole call of a method that is one step: the receiver's dict becomes m2.
Call(op, who, h2, ret) ==
  /\ pc = "idle" /\ ops < MaxOps
  /\ heap' = h2
  /\ last' = [op |-> op, who |-> who, err |-> "", ret |-> ret]
  /\ ops' = ops + 1
  /\ hist' = [base |-> <<>>, ds |-> <<>>] /\ trace' = <<>> /\ prior' = <<>>
  /\ invoked' = [h \in Hypotheses |-> 0]
  /\ UNCHANGED <<kind, hyp, pc, self, data, it, callsWith, failed, cdf, query,
                 interval>>

\* who.scale(factor)
Scale(who, factor) ==
  /\ Call("scale", who, [heap EXCEPT ![Ref(who)] = scale(@, factor)], None)
  /\ UNCHANGED cref

\* who.normalize()
Normalize(who) ==
  /\ Call("normalize", who, [heap EXCEPT ![Ref(who)] = normalize(@)], None)
  /\ UNCHANGED cref

\* who[k] = w
SetItem(who, k, w) ==
  /\ Call("setitem", who, [heap EXCEPT ![Ref(who)] = SetItemOf(@, k, w)], None)
  /\ UNCHANGED cref

\* del who[k]: KeyError when who does not hold k
DelItem(who, k) ==
  /\ pc = "idle" /\ ops < MaxOps
  /\ heap' = [heap EXCEPT ![Ref(who)] = IF k \in Keys(@) THEN DelItemOf(@, k) ELSE @]
  /\ last' = [op |-> "delitem", who |-> who,
              err |-> IF k \in Keys(Obj(who)) THEN "" ELSE "KeyError", ret |-> None]
  /\ ops' = ops + 1
  /\ hist' = [base |-> <<>>, ds |-> <<>>] /\ trace' = <<>> /\ prior' = <<>>
  /\ invoked' = [h \in Hypotheses |-> 0]
  /\ UNCHANGED <<cref, kind, hyp, pc, self, data, it, callsWith, failed, cdf, query,
                 interval>>

\* who.uniform_dist(events)
UniformDist(who, events) ==
  /\ Call("uniform_dist", who, [heap EXCEPT ![Ref(who)] = uniform_dist(events)], None)
  /\ UNCHANGED cref

\* who.power_law_dist(events, alpha)
PowerLawDist(who, events, alpha) ==
  /\ Call("power_law_dist", who,
          [heap EXCEPT ![Ref(who)] = power_law_dist(events, alpha)], None)
  /\ UNCHANGED cref

\* c = m.copy()
Copy ==
  /\ kind # "Inventory"
  /\ LET r == copy(heap, "o1", "o2")
     IN  /\ Call("copy", "m", r.heap, None)
         /\ cref' = r.ref

\* who.random(), random.random() returning r
Random(who, r) ==
  /\ Call("random", who, heap, random(Obj(who), r))
  /\ UNCHANGED cref

\* who.update(d) is entered: the for loop starts.
UpdateCall(who, d) ==
  /\ pc = "idle" /\ ops < MaxOps
  /\ pc' = "loop" /\ self' = who /\ data' = d /\ it' = 1 /\ trace' = <<>>
  /\ hist' = IF last.op = "update" /\ last.who = who /\ last.err = ""
             THEN [hist EXCEPT !.ds = Append(@, d)]
             ELSE [base |-> Obj(who), ds |-> <<d>>]
  /\ callsWith' = [h \in Hypotheses |->
                     IF kind = "Inventory" /\ h \in Keys(Obj(who))
                     THEN callsWith[h] + 1 ELSE callsWith[h]]
  /\ invoked' = [h \in Hypotheses |-> 0]
  /\ prior' = Obj(who)
  /\ last' = [op |-> "update", who |-> who, err |-> "", ret |-> None]
  /\ ops' = ops + 1
  /\ UNCHANGED <<heap, cref, kind, hyp, failed, cdf, query, interval>>

\* One pass of the loop body: self[event] *= self.likelihood(data, given = event).
\* When the likelihood raises, update() ends there with that error: the entry is
\* not revised and normalize() does not run.
UpdateStep ==
  /\ pc = "loop" /\ it <= Len(Obj(self))
  /\ LET entry == Obj(self)[it]
         r == likelihood(kind, hyp, data, entry.e)
     IN  /\ invoked' = [invoked EXCEPT ![entry.e] = @ + 1]
         /\ IF r.err # ""
            THEN /\ pc' = "idle" /\ failed' = TRUE
                 /\ last' = [last EXCEPT !.err = r.err]
                 /\ UNCHANGED <<heap, hyp, it, trace>>
            ELSE /\ heap' = [heap EXCEPT ![Ref(self)][it].w = Revise(entry.w, r.val)]
                 /\ hyp' = r.hyp
                 /\ trace' = Append(trace, [e |-> entry.e, val |-> r.val])
                 /\ it' = NextIndex(it)
                 /\ UNCHANGED <<pc, failed, last>>
  /\ UNCHANGED <<cref, kind, self, data, hist, callsWith, prior, ops, cdf, query,
                 interval>>

\* The loop is exhausted: self.normalize(), and update() returns.
UpdateReturn ==
  /\ pc = "loop" /\ it > Len(Obj(self))
  /\ heap' = [heap EXCEPT ![Ref(self)] = update_finish(@)]
  /\ pc' = "idle"
  /\ UNCHANGED <<cref, kind, hyp, self, data, it, trace, hist, callsWith, invoked, failed,
                 prior, last, ops, cdf, query, interval>>

\* ---------------------------------------------------------------- class CDF
\* dict_items_from_data: the items of a new dict made from data
dict_items_from_data(d) == IF Len(d) > 0 THEN d ELSE <<>>

\* first_element
first_element(l) == l.e

\* Mutant of sort_items: the items are left in the dict's order.
sort_items_unsorted(items, reverse) == items

\* sort_items with the default key (first_element), cmp = None
RECURSIVE sort_items(_, _)
sort_items(items, reverse) ==
  IF Len(items) = 0 THEN <<>>
  ELSE LET i == CHOOSE j \in DOMAIN items :
                  \A k \in DOMAIN items :
                    IF reverse THEN first_element(items[k]) <= first_element(items[j])
                    ELSE first_element(items[j]) <= first_element(items[k])
           rest == [k \in 1..(Len(items) - 1) |->
                      IF k < i THEN items[k] ELSE items[k + 1]]
       IN  <<items[i]>> \o sort_items(rest, reverse)

\* running_sum: the totals after each element of l, from total = 0
RECURSIVE RunningFrom(_, _, _)
RunningFrom(acc, l, i) ==
  IF i > Len(l) THEN <<>>
  ELSE <<Add(acc, l[i])>> \o RunningFrom(Add(acc, l[i]), l, i + 1)
running_sum(l) == RunningFrom(Zero, l, 1)

\* CDF.__init__ on a dict d: zip(*items) of no items cannot be unpacked.
cdf_init(d, reverse) ==
  LET items == sort_items(dict_items_from_data(d), reverse)
  IN  IF Len(items) = 0
      THEN [err |-> "ValueError", events |-> <<>>, cumulative_distribution |-> <<>>]
      ELSE [err |-> "",
            events |-> [i \in DOMAIN items |-> items[i].e],
            cumulative_distribution |->
              running_sum([i \in DOMAIN items |-> items[i].w])]

\* bisect.bisect(a, x) (bisect_right), the search between lo and hi; indices
\* are Python's, from 0
RECURSIVE bisect(_, _, _, _)
bisect(a, x, lo, hi) ==
  IF lo < hi
  THEN LET mid == (lo + hi) \div 2
       IN  IF Lt(x, a[mid + 1]) THEN bisect(a, x, lo, mid)
           ELSE bisect(a, x, mid + 1, hi)
  ELSE lo

\* l[i] with Python's indices: from 0, negative ones counted from the end
PyInRange(l, i) == -Len(l) <= i /\ i < Len(l)
PyAt(l, i) == IF i < 0 THEN l[Len(l) + i + 1] ELSE l[i + 1]

\* Mutant of floor_index: the upper-bound index without the tie-break.
floor_index_upper(c, probability) ==
  bisect(c.cumulative_distribution, probability, 0, Len(c.cumulative_distribution))

\* CDF.floor_index
floor_index(c, probability) ==
  LET index == bisect(c.cumulative_distribution, probability, 0,
                      Len(c.cumulative_distribution))
  IN  IF Eq(probability, PyAt(c.cumulative_distribution, index - 1))
      THEN index - 1 ELSE index

\* Mutant of percentile: an index past the end is clamped to the last event.
percentile_clamped(c, probability) ==
  LET i == floor_index(c, probability)
      j == IF i >= Len(c.events) THEN Len(c.events) - 1 ELSE i
  IN  [err |-> "", index |-> j, event |-> [some |-> TRUE, val |-> PyAt(c.events, j)]]

\* CDF.percentile: the event, or the IndexError of self.events[...]
percentile(c, probability) ==
  LET i == floor_index(c, probability)
  IN  IF PyInRange(c.events, i)
      THEN [err |-> "", index |-> i, event |-> [some |-> TRUE, val |-> PyAt(c.events, i)]]
      ELSE [err |-> "IndexError", index |-> i, event |-> None]

\* The record of one percentile call: its probability and its outcome r
PercentileCall(probability, r) ==
  [p |-> probability, index |-> r.index, err |-> r.err, event |-> r.event]

\* The percentile calls percentiles makes from the i-th probability on, up to
\* the first that raises
RECURSIVE PercentileCalls(_, _, _)
PercentileCalls(c, probabilities, i) ==
  IF i > Len(probabilities) THEN <<>>
  ELSE IF percentile(c, probabilities[i]).err # ""
       THEN <<PercentileCall(probabilities[i], percentile(c, probabilities[i]))>>
  ELSE <<PercentileCall(probabilities[i], percentile(c, probabilities[i]))>>
         \o PercentileCalls(c, probabilities, i + 1)

\* The outcome of percentiles after the percentile calls `calls`: the first
\* error raised, or the tuple of the events returned
PercentilesOutcome(calls) ==
  IF Len(calls) > 0 /\ calls[Len(calls)].err # ""
  THEN [err |-> calls[Len(calls)].err, calls |-> calls, ret |-> <<>>]
  ELSE [err |-> "", calls |-> calls,
        ret |-> [i \in 1..Len(calls) |-> calls[i].event.val]]

\* Mutant of percentiles: the events are returned from the last probability's
\* to the first's.
percentiles_reversed(c, probabilities) ==
  [PercentilesOutcome(PercentileCalls(c, probabilities, 1)) EXCEPT
     !.ret = [i \in 1..Len(@) |-> @[Len(@) + 1 - i]]]

\* CDF.percentiles: the tuple of percentile(probability) for each probability
\* in turn, or the IndexError of the first call that raises
percentiles(c, probabilities) ==
  PercentilesOutcome(PercentileCalls(c, probabilities, 1))

\* The probabilities asked of a CDF: its cumulative sums, 0, and the values
\* 1/ProbDen below and above each
Probes(c) ==
  LET marks == {c.cumulative_distribution[i] : i \in DOMAIN c.cumulative_distribution}
                 \cup {Zero}
  IN  marks \cup {Add(x, Frac(1, ProbDen)) : x \in marks}
            \cup {Add(x, Frac(-1, ProbDen)) : x \in marks}

\* cdf = CDF(m, reverse = reverse)
CDFInit(reverse) ==
  /\ pc = "idle" /\ ~cdf.built
  /\ LET r == cdf_init(Obj("m"), reverse)
     IN  /\ cdf' = [built |-> r.err = "", events |-> r.events,
                    cumulative_distribution |-> r.cumulative_distribution]
         /\ last' = [op |-> "CDF", who |-> "m", err |-> r.err, ret |-> None]
  /\ UNCHANGED <<heap, cref, kind, hyp, pc, self, data, it, trace, hist, callsWith, invoked,
                 failed, prior, ops, query, interval>>

\* cdf.percentile(p)
Percentile(p) ==
  /\ pc = "idle" /\ cdf.built
  /\ LET r == percentile(cdf, p)
     IN  /\ query' = [asked |-> TRUE, p |-> p, index |-> r.index, err |-> r.err,
                      event |-> r.event]
         /\ last' = [op |-> "percentile", who |-> "m", err |-> r.err, ret |-> r.event]
  /\ UNCHANGED <<heap, cref, kind, hyp, pc, self, data, it, trace, hist, callsWith, invoked,
                 failed, prior, ops, cdf, interval>>

\* cdf.percentiles(p1, p2)
Percentiles(p1, p2) ==
  /\ pc = "idle" /\ cdf.built
  /\ interval' = [asked |-> TRUE, probabilities |-> <<p1, p2>>] @@
                  percentiles(cdf, <<p1, p2>>)
  /\ query' = [asked |-> TRUE] @@ interval'.calls[Len(interval'.calls)]
  /\ last' = [op |-> "percentiles", who |-> "m", err |-> interval'.err,
              ret |-> IF interval'.err = ""
                      THEN [some |-> TRUE, val |-> interval'.ret] ELSE None]
  /\ UNCHANGED <<heap, cref, kind, hyp, pc, self, data, it, trace, hist, callsWith, invoked,
                 failed, prior, ops, cdf>>

\* The PMF's operations, on m and on its copy
Next ==
  \/ \E who \in Names, f \in Factors : Scale(who, f)
  \/ \E who \in Names : Normalize(who)
  \/ \E who \in Names, k \in Events, w \in SetWeights : SetItem(who, k, w)
  \/ \E who \in Names, k \in Events : DelItem(who, k)
  \/ \E who \in Names, evs \in EventLists : UniformDist(who, evs)
  \/ \E who \in Names, evs \in EventLists, alpha \in Alphas : PowerLawDist(who, evs, alpha)
  \/ Copy
  \/ \E who \in Names, d \in DataOf(kind) : UpdateCall(who, d)
  \/ UpdateStep
  \/ UpdateReturn

Spec == Init /\ [][Next]_vars

\* Successive update() calls on m, for each class of likelihood
NextUpdate ==
  \/ \E d \in DataOf(kind) : UpdateCall("m", d)
  \/ UpdateStep
  \/ UpdateReturn

SpecUpdate == InitUpdate /\ [][NextUpdate]_vars

\* m.random() for each value random.random() can return
NextSample == \E r \in Randoms : Random("m", r)

SpecSample == InitSample /\ [][NextSample]_vars

\* A CDF built from m, and percentile queries of it
NextCDF ==
  \/ \E reverse \in BOOLEAN : CDFInit(reverse)
  \/ \E p \in Probes(cdf) : Percentile(p)

SpecCDF == InitCDF /\ [][NextCDF]_vars

\* cdf = CDF(m) with the default arguments, then m's mutators
NextSnapshot ==
  \/ CDFInit(FALSE)
  \/ cdf.built /\ \E f \in Factors : Scale("m", f)
  \/ cdf.built /\ Normalize("m")
  \/ cdf.built /\ \E k \in Events, w \in SetWeights : SetItem("m", k, w)
  \/ cdf.built /\ \E k \in Events : DelItem("m", k)
  \/ cdf.built /\ \E evs \in EventLists : UniformDist("m", evs)
  \/ cdf.built /\ \E d \in DataOf(kind) : UpdateCall("m", d)
  \/ UpdateStep
  \/ UpdateReturn

SpecSnapshot == InitSnapshot /\ [][NextSnapshot]_vars

\* A CDF built from m in either order, and a credible interval asked of it (a
\* query leaves the CDF as it is: a later one starts from the same CDF)
NextInterval ==
  \/ \E reverse \in BOOLEAN : CDFInit(reverse)
  \/ ~interval.asked /\ \E p1 \in Probes(cdf), p2 \in Probes(cdf) : Percentiles(p1, p2)

SpecInterval == InitPMF /\ [][NextInterval]_vars


\* ================================================================== claims
EventsOf(m) == [i \in DOMAIN m |-> m[i].e]
\* update() has returned normally and nothing was called since
Updated == pc = "idle" /\ last.op = "update" /\ last.err = ""

\* update() has ended with an error raised by a likelihood, and nothing was
\* called since
Aborted == pc = "idle" /\ last.op = "update" /\ last.err # ""

\* The cookies taken out of hypothesis h's bowls since construction
Removed(h) ==
  LET gone(b, c) == Add(Get(CookieHypotheses[h][b], c),
                        Mul(Num(-1), Get(hyp[h][b], c)))
  IN  Add(Add(gone("bowl_a", "vanilla"), gone("bowl_a", "chocolate")),
          Add(gone("bowl_b", "vanilla"), gone("bowl_b", "chocolate")))
\* Whether the current update() has yet to evaluate hypothesis h
Pending(h) ==
  /\ pc = "loop"
  /\ h \in Keys(prior)
  /\ \A i \in DOMAIN trace : trace[i].e # h
\* The dict of the current update(): the weights of the hypotheses whose
\* likelihood has returned are revised, the others are the prior ones
Revised ==
  [i \in DOMAIN prior |->
     [e |-> prior[i].e,
      w |-> IF i <= Len(trace) THEN Mul(prior[i].w, trace[i].val) ELSE prior[i].w]]
\* Inside update()'s loop the likelihood has been invoked once for each
\* hypothesis visited so far, in the dict's order, and for no other; the dict
\* holds the revised, not yet normalized weights.
OncePerVisited ==
  pc = "loop" =>
    /\ Len(trace) = it - 1
    /\ Len(trace) <= Len(prior)
    /\ \A i \in DOMAIN trace : trace[i].e = prior[i].e
    /\ \A h \in Hypotheses :
         invoked[h] = IF \E i \in DOMAIN trace : trace[i].e = h THEN 1 ELSE 0
    /\ Obj(self) = Revised
\* A side-effecting likelihood (Inventory's) has taken exactly one cookie per
\* hypothesis per update() call.
OneCookiePerCall ==
  (kind = "Inventory" /\ ~failed) =>
    \A h \in DOMAIN hyp :
      Removed(h) = Num(callsWith[h] - (IF Pending(h) THEN 1 ELSE 0))

\* C1 as stated: in every update() call on a dict with hypotheses H the
\* likelihood is invoked exactly once for each hypothesis in H and for no
\* other, whether the call returns or raises.
C1_Original ==
  /\ OncePerVisited
  /\ (pc = "idle" /\ last.op = "update") =>
       \A h \in Hypotheses : invoked[h] = IF h \in Keys(prior) THEN 1 ELSE 0
  /\ OneCookiePerCall

\* C1 amended: within one update() call the likelihood is invoked for the
\* hypotheses in the dict's order, each at most once and none outside the dict,
\* and until the loop is over the dict holds the revised, not yet normalized
\* weights.  When update() returns, every hypothesis has been evaluated exactly
\* once and the dict is the normalized revision; a side-effecting likelihood
\* has then acted exactly once per hypothesis per call.  When a likelihood
\* raises, update() ends with its error: the hypotheses before it were
\* evaluated once and revised, the raising one was invoked once, the later
\* ones not at all, and the dict is left unnormalized.
C1_LikelihoodOncePerHypothesis ==
  /\ OncePerVisited
  /\ Updated =>
       /\ EventsOf(trace) = EventsOf(prior)
       /\ \A h \in Hypotheses : invoked[h] = IF h \in Keys(prior) THEN 1 ELSE 0
       /\ Obj(self) = normalize(Revised)
  /\ Aborted =>
       /\ it <= Len(prior) /\ Len(trace) = it - 1
       /\ \A i \in DOMAIN prior : invoked[prior[i].e] = IF i <= it THEN 1 ELSE 0
       /\ \A h \in Hypotheses \ Keys(prior) : invoked[h] = 0
       /\ Obj(self) = Revised
  /\ OneCookiePerCall

\* An update() call is aborted by the base class's NotImplementedError at the
\* first hypothesis, and by a KeyError of a table lookup at a later one.
\* C1 witness: an Inventory after two update() calls that returned, each of
\* which evaluated both hypotheses once and took one cookie from each
C1_Witness ==
  /\ kind = "Inventory" /\ Updated /\ ops >= 2
  /\ Len(prior) >= 2
  /\ \A h \in Keys(prior) : invoked[h] = 1
  /\ Removed(HypA) = Num(2) /\ Removed(HypB) = Num(2)

\* C2 as stated: whenever a likelihood is about to be evaluated, the dict still
\* holds every hypothesis's weight from before the call.
C2_Original ==
  (pc = "loop" /\ it <= Len(Obj(self))) => Obj(self) = prior

\* C2 amended: whenever a likelihood is about to be evaluated, the hypothesis
\* it is evaluated for and every hypothesis not yet visited still hold their
\* weights from before the call, and every hypothesis already visited holds its
\* prior weight times its own likelihood.
C2_Amended ==
  pc = "loop" =>
    /\ EventsOf(Obj(self)) = EventsOf(prior)
    /\ \A i \in DOMAIN prior :
         IF i < it THEN Obj(self)[i].w = Mul(prior[i].w, trace[i].val)
         ELSE Obj(self)[i].w = prior[i].w

\* C2 witness: a likelihood is about to be evaluated while an earlier
\* hypothesis already holds a revised weight.
C2_Witness ==
  /\ pc = "loop" /\ it > 1 /\ it <= Len(Obj(self))
  /\ Obj(self)[1].w # prior[1].w
  /\ Obj(self)[it].w = prior[it].w /\ prior[it].w # Zero

\* The product of the likelihoods L of the data ds for hypothesis h
RECURSIVE ProductLikelihood(_, _, _, _)
ProductLikelihood(L, ds, h, i) ==
  IF i > Len(ds) THEN One
  ELSE Mul(L[ds[i]][h], ProductLikelihood(L, ds, h, i + 1))
\* The posterior of one update from prior base whose likelihood is the product
\* of the likelihoods L of the data ds
ProductPosterior(L, base, ds) ==
  LET u == [i \in DOMAIN base |->
              Mul(base[i].w, ProductLikelihood(L, ds, base[i].e, 1))]
      S == SumFrom(Zero, u, 1)
  IN  [i \in DOMAIN base |->
         [e |-> base[i].e,
          w |-> IF S = Zero \/ IsNaN(S) THEN NaN ELSE Frac(u[i][1] * S[2], u[i][2] * S[1])]]

\* C3: for every side-effect-free likelihood L (every table over LikValues,
\* and the dice likelihood) and all data, after two or more consecutive
\* update() calls the dict equals the posterior of a single update from the
\* same prior whose likelihood is the product of L over the data: same
\* hypotheses, same normalized weights (when the product leaves no mass, both
\* are the all-NaN dict).  The weights are compared as exact numbers.
C3_SequentialComposition ==
  (kind = "Pure" /\ Updated /\ Len(hist.ds) >= 2) =>
    Obj(last.who) = ProductPosterior(hyp, hist.base, hist.ds)

\* C3 witness: two updates with different data, whose likelihoods differ, of an
\* unnormalized prior over two hypotheses, leaving unequal weight on both
C3_Witness ==
  /\ kind = "Pure" /\ Updated /\ Len(hist.ds) = 2
  /\ hist.ds[1] # hist.ds[2] /\ hyp[hist.ds[1]] # hyp[hist.ds[2]]
  /\ Len(Obj("m")) >= 2
  /\ total(hist.base) # One
  /\ \A i \in DOMAIN Obj("m") : Lt(Zero, Obj("m")[i].w)
  /\ Obj("m")[1].w # Obj("m")[2].w

\* C4 as stated: update() on the base class raises NotImplementedError whatever
\* the dict holds.
C4_Original ==
  (kind = "PMF" /\ pc = "idle" /\ last.op = "update") =>
    last.err = "NotImplementedError"

\* C4 amended: update() on the base class raises NotImplementedError whenever
\* the dict is not empty, at its first hypothesis and leaving the dict as it
\* was; on an empty dict no likelihood is evaluated and update() returns
\* normally.
C4_Amended ==
  /\ (kind = "PMF" /\ pc = "loop") => (it = 1 /\ trace = <<>> /\ Obj(self) = prior)
  /\ (kind = "PMF" /\ pc = "idle" /\ last.op = "update") =>
       IF Len(prior) > 0
       THEN last.err = "NotImplementedError" /\ Obj(last.who) = prior /\ trace = <<>>
       ELSE last.err = "" /\ Obj(last.who) = <<>>

\* C4 witness: update() has raised on a dict of two hypotheses
C4_Witness ==
  /\ kind = "PMF" /\ pc = "idle" /\ last.op = "update"
  /\ last.err = "NotImplementedError" /\ Len(prior) >= 2

\* The dict a Call step acted on, before and after (action level)
Before == heap[Ref(last'.who)]
After == heap'[Ref(last'.who)]
Called(op) == pc = "idle" /\ ops' = ops + 1 /\ last'.op = op
\* x / t for finite x and finite t # 0
Div(x, t) == Frac(x[1] * t[2], x[2] * t[1])

\* C5: normalize() on a dict whose total is positive leaves the hypotheses as
\* they were, makes the weights sum to 1, and makes every weight its previous
\* weight divided by the previous total (so ratios of weights are kept).
C5_NormalizeSumsToOne ==
  [][(Called("normalize") /\ Lt(Zero, total(Before))) =>
       /\ EventsOf(After) = EventsOf(Before)
       /\ total(After) = One
       /\ \A i \in DOMAIN Before : After[i].w = Div(Before[i].w, total(Before))
       /\ \A i, j \in DOMAIN Before :
            Mul(After[i].w, Before[j].w) = Mul(After[j].w, Before[i].w)]_vars

\* C5 witness: normalize() has acted on a dict with unequal positive weights
C5_Witness ==
  /\ last.op = "normalize" /\ Len(Obj(last.who)) >= 2
  /\ total(Obj(last.who)) = One
  /\ \A i \in DOMAIN Obj(last.who) : Lt(Zero, Obj(last.who)[i].w)
  /\ Obj(last.who)[1].w # Obj(last.who)[2].w

\* C6: normalize() on a dict whose weights are all 0 does not fail; the
\* normalizer is +inf and afterwards every weight is NaN, the hypotheses being
\* as they were.
C6_ZeroSumGivesNaN ==
  [][(Called("normalize") /\ \A i \in DOMAIN Before : Before[i].w = Zero) =>
       /\ normalizer(Before) = Inf
       /\ last'.err = ""
       /\ EventsOf(After) = EventsOf(Before)
       /\ \A i \in DOMAIN After : IsNaN(After[i].w)]_vars

\* C6 witness: normalize() has turned two hypotheses' weights into NaN
C6_Witness ==
  /\ last.op = "normalize" /\ last.err = "" /\ Len(Obj(last.who)) >= 2
  /\ \A i \in DOMAIN Obj(last.who) : IsNaN(Obj(last.who)[i].w)

\* The name whose method takes this step
Actor == IF pc = "loop" THEN self ELSE last'.who

\* C7: c = m.copy() holds m's entries and leaves m as it was; from then on no
\* step of an operation on c (scale, normalize, update, uniform_dist,
\* power_law_dist, item assignment, item deletion) changes m's dict, and no step of an
\* operation on m changes c's.
C7_CopyIsIndependent ==
  [][/\ Called("copy") => (heap'[cref'] = heap["o1"] /\ heap'["o1"] = heap["o1"])
     /\ (cref # "none" /\ ~Called("copy")) =>
          /\ Actor = "c" => heap'["o1"] = heap["o1"]
          /\ Actor = "m" => heap'[cref] = heap[cref]]_vars

\* C7 witness: an update() on the copy has returned and the copy differs from m
C7_Witness ==
  /\ cref # "none" /\ Updated /\ last.who = "c"
  /\ Len(heap["o1"]) >= 2
  /\ EventsOf(heap[cref]) = EventsOf(heap["o1"])
  /\ heap[cref] # heap["o1"]

\* The cumulative sums of the CDF and the last one
Cum == cdf.cumulative_distribution
LastCum == Cum[Len(Cum)]
\* The smallest Python index whose cumulative sum exceeds p, Len(Cum) if none
UpperIndex(p) ==
  LET above == {i \in 0..(Len(Cum) - 1) : Lt(p, Cum[i + 1])} \cup {Len(Cum)}
  IN  CHOOSE i \in above : \A j \in above : i <= j

\* C8: for a probability p with 0 <= p <= the last cumulative sum,
\* floor_index(p) is idx - 1 when the cumulative sum at idx - 1 equals p and idx
\* otherwise, idx being the smallest index whose cumulative sum exceeds p (the
\* number of events when there is none); percentile(p) is the event at that
\* index; over the cumulative sums 1, 2, 3 percentile(2) is the second event.
C8_FloorIndexTieBreak ==
  (query.asked /\ Le(Zero, query.p) /\ Le(query.p, LastCum)) =>
    LET idx == UpperIndex(query.p)
        want == IF idx >= 1 /\ Cum[idx] = query.p THEN idx - 1 ELSE idx
    IN  /\ query.index = want
        /\ query.err = ""
        /\ query.event = [some |-> TRUE, val |-> cdf.events[want + 1]]
        /\ (Cum = <<Num(1), Num(2), Num(3)>> /\ query.p = Num(2)) =>
             query.event.val = cdf.events[2]

\* C8 witness: percentile(2) over the cumulative sums 1, 2, 3 has returned the
\* second event
C8_Witness ==
  /\ query.asked /\ Cum = <<Num(1), Num(2), Num(3)>> /\ query.p = Num(2)
  /\ query.event = [some |-> TRUE, val |-> cdf.events[2]]

\* C9 as stated: a percentile query with a probability below 0 or above the last
\* cumulative sum fails with a range error and returns no event.
C9_Original ==
  (query.asked /\ (Lt(query.p, Zero) \/ Lt(LastCum, query.p))) =>
    (query.err = "IndexError" /\ ~query.event.some)

\* C9 amended: a percentile query with a probability above the last cumulative
\* sum fails with a range error and returns no event; one with a probability
\* below 0 does not fail: its floor_index is 0 and it returns the first event.
C9_Amended ==
  /\ (query.asked /\ Lt(LastCum, query.p)) =>
       (query.err = "IndexError" /\ ~query.event.some /\ query.index = Len(Cum))
  /\ (query.asked /\ Lt(query.p, Zero)) =>
       /\ query.err = "" /\ query.index = 0
       /\ query.event = [some |-> TRUE, val |-> cdf.events[1]]

\* C9 witness: a query above the last cumulative sum of three events has failed
C9_Witness ==
  /\ query.asked /\ Len(Cum) >= 3 /\ Lt(Zero, LastCum) /\ Lt(LastCum, query.p)
  /\ query.err = "IndexError"

\* C10 as stated: random() on a dict with a positive total returns a key of the
\* dict, and never one whose weight is 0.
C10_SampleNeverZeroWeight ==
  (last.op = "random" /\ Lt(Zero, total(Obj("m")))) =>
    /\ last.ret.some
    /\ last.ret.val \in Keys(Obj("m"))
    /\ Get(Obj("m"), last.ret.val) # Zero

\* The entries of m whose event is at most e
UpTo(m, e) == SelectSeq(m, LAMBDA x : x.e <= e)

\* C11: CDF(m) leaves m as it is and holds m's events in ascending order and,
\* for each, the sum of the weights m gives to the events up to it; from then
\* on no step of an operation on m (scale, normalize, update, uniform_dist,
\* item assignment, item deletion) changes the CDF's events or cumulative
\* sums, or the result of any percentile query.
C11_CDFIsSnapshot ==
  [][/\ (~cdf.built /\ cdf'.built) =>
          /\ heap' = heap
          /\ cdf'.events = Ascending(Keys(heap["o1"]))
          /\ DOMAIN cdf'.cumulative_distribution = DOMAIN cdf'.events
          /\ \A i \in DOMAIN cdf'.events :
                cdf'.cumulative_distribution[i] =
                  total(UpTo(heap["o1"], cdf'.events[i]))
     /\ cdf.built =>
          /\ cdf'.events = cdf.events
          /\ cdf'.cumulative_distribution = cdf.cumulative_distribution
          /\ \A p \in Probes(cdf) : percentile(cdf', p) = percentile(cdf, p)]_vars

\* C11 witness: after a CDF of two or more events was built, an update() of
\* the dict has returned, the dict no longer holds every event of the CDF, and a
\* CDF built from it now would have other cumulative sums
C11_Witness ==
  /\ cdf.built /\ Len(cdf.events) >= 2 /\ Updated /\ Len(Obj("m")) >= 1
  /\ \E i \in DOMAIN cdf.events : cdf.events[i] \notin Keys(Obj("m"))
  /\ cdf_init(Obj("m"), FALSE).cumulative_distribution # cdf.cumulative_distribution

\* The place of event e in the CDF's event sequence
Position(e) == CHOOSE i \in DOMAIN cdf.events : cdf.events[i] = e

\* C12: for a CDF built from non-negative weights and probabilities p1 <= p2
\* between 0 and the last cumulative sum, percentiles(p1, p2) does not fail,
\* floor_index(p1) <= floor_index(p2), and the result is the event at
\* floor_index(p1) followed by the event at floor_index(p2), so the first is
\* never after the second in the CDF's event sequence.
C12_PercentilesMonotone ==
  LET p1 == interval.probabilities[1]
      p2 == interval.probabilities[2]
      i1 == floor_index(cdf, p1)
      i2 == floor_index(cdf, p2)
  IN  (interval.asked /\ Le(Zero, p1) /\ Le(p1, p2) /\ Le(p2, LastCum)) =>
        /\ interval.err = ""
        /\ i1 <= i2
        /\ interval.calls[1].index = i1 /\ interval.calls[2].index = i2
        /\ interval.ret = <<cdf.events[i1 + 1], cdf.events[i2 + 1]>>
        /\ Position(interval.ret[1]) <= Position(interval.ret[2])

\* C12 witness: over a CDF with a zero-weight event (a repeated cumulative sum)
\* percentiles(p1, p2) with 0 <= p1 < p2 <= the last sum has returned two
\* different events
C12_Witness ==
  /\ interval.asked /\ interval.err = ""
  /\ Le(Zero, interval.probabilities[1])
  /\ Lt(interval.probabilities[1], interval.probabilities[2])
  /\ Le(interval.probabilities[2], LastCum)
  /\ \E i \in 1..(Len(Cum) - 1) : Cum[i] = Cum[i + 1]
  /\ interval.calls[1].index < interval.calls[2].index
  /\ interval.ret[1] # interval.ret[2]

====
